---- MODULE Spec2Model ----
(***************************************************************************)
(* System curves: total dynamic head (TDH) of a series pipeline as a       *)
(* function of flow rate.                                                  *)
(*                                                                         *)
(* The repository holds two aggregates over pipe sections, System          *)
(* (src/models/System.ts) and Pipeline (src/models/Pipeline.ts), and two   *)
(* PipeSection classes: the banded one (src/models/PipeSection.ts, min/max *)
(* elevations, execute() without arguments) and the single-valued one      *)
(* (src/unnamed/part_001, getters/setters, execute(method, isImperial)).   *)
(*                                                                         *)
(* JavaScript numbers are modelled as fixed-point integers: the integer n  *)
(* stands for the real n / Scale.  Products and quotients truncate to that *)
(* resolution (the model's counterpart of floating-point rounding).        *)
(***************************************************************************)
EXTENDS Integers, Sequences, FiniteSets, TLC

(***************************************************************************)
(* Fixed-point arithmetic.                                                 *)
(***************************************************************************)
Scale == 1000

\* n as a fixed-point number
Num(n) == n * Scale

\* a * b, truncated; split so that no intermediate product leaves 32 bits
Mul(a, b) == (a \div Scale) * b + ((a % Scale) * b) \div Scale

\* a / b for b > 0, truncated
DivPos(a, b) == (a \div b) * Scale + ((a % b) * Scale) \div b

\* a / b (b # 0)
Div(a, b) == IF b < 0 THEN DivPos(-a, -b) ELSE DivPos(a, b)

\* Math.pow(x, 2), x ** 2
Pow2(x) == Mul(x, x)

\* Math.pow(x, -2)
PowNeg2(x) == Div(Num(1), Pow2(x))

\* Math.max
Max(a, b) == IF a >= b THEN a ELSE b

\* log10 of the integers 1..10, in thousandths
Log10Table == <<0, 301, 477, 602, 699, 778, 845, 903, 954, 1000>>

\* <<m, e>> with x = m * 10^e and 1 <= m < 10 (x > 0)
RECURSIVE Normalize(_, _)
Normalize(x, e) ==
    IF x < Num(1) THEN Normalize(x * 10, e - 1)
    ELSE IF x >= Num(10) THEN Normalize(x \div 10, e + 1)
    ELSE <<x, e>>

\* Math.log10 / math.log10 for x > 0: exact at 1..10 and at powers of ten,
\* linear between two neighbouring integers of the mantissa
Log10(x) ==
    LET interpolate(lo, fr) ==
            Log10Table[lo] + ((Log10Table[lo + 1] - Log10Table[lo]) * fr) \div Scale
        fromParts(me) == Num(me[2]) + interpolate(me[1] \div Scale, me[1] % Scale)
    IN  fromParts(Normalize(x, 0))

\* Array.prototype.reduce((sum, k) => sum + k, 0)
RECURSIVE SumSeq(_)
SumSeq(s) == IF s = <<>> THEN 0 ELSE SumSeq(SubSeq(s, 1, Len(s) - 1)) + s[Len(s)]

(***************************************************************************)
(* Values shared by the classes.                                           *)
(***************************************************************************)
\* no exception was thrown
NoError == "none"

\* math.pi
Pi == 3142

\* the floor 1e-6 of Math.max(x, 1e-6): the smallest positive number of the
\* fixed-point resolution
Epsilon == 1

\* 2.31, the imperial pressure-head factor
PressureFactorImperial == 2310

\* 32.17, the imperial gravitational constant
GravityImperial == 32170

\* Reynolds number below which the flow is laminar
LaminarLimit == 2300

\* the number NaN: an integer no calculation of the model reaches
NaN == -2000000000

\* JavaScript truthiness of a number | null, null being <<>> and x being <<x>>
Truthy(prev) == prev # <<>> /\ prev[1] # 0

(***************************************************************************)
(* The banded PipeSection, src/models/PipeSection.ts.  A parameter record  *)
(* holds the constructor's fourteen arguments.                             *)
(***************************************************************************)
\* the constructor checks with the band rejected only when both ends cross
PipeSectionErrorBothCross(p) ==
    IF p.diameter <= 0 THEN "Pipe diameter must be greater than 0."
    ELSE IF p.length <= 0 THEN "Pipe length must be greater than 0."
    ELSE IF p.absoluteRoughness < 0 THEN "Absolute roughness must be non-negative."
    ELSE IF p.kinematicViscOfFluid <= 0 THEN "Kinematic viscosity must be greater than 0."
    ELSE IF Len(p.appurtenanceKValues) = 0 THEN "Appurtenance K values must not be empty."
    ELSE IF p.z2_max < p.z1_min /\ p.z2_min < p.z1_max THEN "Elevation ranges are invalid."
    ELSE NoError

\* the error the constructor throws for parameters p, NoError if it returns
PipeSectionError(p) ==
    IF p.diameter <= 0 THEN "Pipe diameter must be greater than 0."
    ELSE IF p.length <= 0 THEN "Pipe length must be greater than 0."
    ELSE IF p.absoluteRoughness < 0 THEN "Absolute roughness must be non-negative."
    ELSE IF p.kinematicViscOfFluid <= 0 THEN "Kinematic viscosity must be greater than 0."
    ELSE IF Len(p.appurtenanceKValues) = 0 THEN "Appurtenance K values must not be empty."
    ELSE IF p.z2_max < p.z1_min \/ p.z2_min < p.z1_max THEN "Elevation ranges are invalid."
    ELSE NoError

\* the object a successful constructor call leaves: the parameters and the
\* three derived fields
NewPipeSection(p) ==
    [hydraulicArea |-> Mul(Pi, Pow2(p.diameter)) \div 4,
     relativeRoughness |-> Div(p.absoluteRoughness, p.diameter),
     hasVelocityHead |-> p.v2 # p.v1] @@ p

\* PipeSection.generateFlowRange: twenty flow rates, step * (i + 1) for i = 0..19
PipeSectionFlowRange(s) ==
    LET step == s.targetFlowRate \div 20
    IN  [i \in 1..20 |-> step * ((i - 1) + 1)]

\* the reynoldsNumber of PipeSection.calculateFrictionFactor
PipeSectionReynoldsNumber(s, flowRate) ==
    Max(Mul(Div(flowRate, s.hydraulicArea),
            Div(s.diameter, s.kinematicViscOfFluid)), Epsilon)

\* calcTerm(prev) of PipeSection.calculateFrictionFactor, with the two locals
\* it closes over
PipeSectionCalcTerm(roughnessTerm, reynoldsNumber, prev) ==
    LET reynoldsTerm ==
            IF Truthy(prev)
            THEN Mul(Div(2510, reynoldsNumber), prev[1])
            ELSE Div(Num(12), reynoldsNumber)
    IN  -2 * Log10(roughnessTerm + reynoldsTerm)

\* the locals <<a, b, c>> of PipeSection.calculateFrictionFactor
PipeSectionTerms(s, reynoldsNumber) ==
    LET roughnessTerm == Div(s.relativeRoughness, 3700)
        withB(a, b) ==
            <<a, b, PipeSectionCalcTerm(roughnessTerm, reynoldsNumber, <<b>>)>>
        withA(a) ==
            withB(a, PipeSectionCalcTerm(roughnessTerm, reynoldsNumber, <<a>>))
    IN  withA(PipeSectionCalcTerm(roughnessTerm, reynoldsNumber, <<>>))

\* Math.pow(a - Math.pow(b - a, 2) / (c - 2 * b + a), -2) over terms <<a, b, c>>.
\* A zero divisor gives NaN for 0 / 0, and otherwise an infinity, which the
\* subtraction keeps and the power turns into 0.
FrictionFromTerms(terms) ==
    LET numerator == Pow2(terms[2] - terms[1])
        denominator == terms[3] - 2 * terms[2] + terms[1]
    IN  IF denominator = 0
        THEN IF numerator = 0 THEN NaN ELSE 0
        ELSE PowNeg2(terms[1] - Div(numerator, denominator))

\* PipeSection.calculateFrictionFactor as a call: the value it returns and the
\* terms it has computed by then, none on the laminar return
PipeSectionFrictionCall(s, flowRate) ==
    LET from(reynoldsNumber) ==
            LET turbulent(terms) ==
                    [value |-> FrictionFromTerms(terms), terms |-> terms]
            IN  IF reynoldsNumber < Num(LaminarLimit)
                THEN [value |-> Div(Num(64), reynoldsNumber), terms |-> <<>>]
                ELSE turbulent(PipeSectionTerms(s, reynoldsNumber))
    IN  from(PipeSectionReynoldsNumber(s, flowRate))

\* PipeSection.calculateFrictionFactor
PipeSectionFrictionFactor(s, flowRate) == PipeSectionFrictionCall(s, flowRate).value

\* PipeSection.calculateMajorLosses
PipeSectionMajorLosses(s, flowRate) ==
    LET from(frictionFactor) ==
            IF frictionFactor = NaN THEN NaN
            ELSE Div(Mul(Mul(frictionFactor, Div(s.length, s.diameter)), Pow2(flowRate)),
                     Mul(2 * GravityImperial, Pow2(s.hydraulicArea)))
    IN  from(PipeSectionFrictionFactor(s, flowRate))

\* PipeSection.calculateMinorLosses
PipeSectionMinorLosses(s, flowRate) ==
    LET kSum == SumSeq(s.appurtenanceKValues)
    IN  Div(Mul(kSum, Pow2(flowRate)),
            Mul(2 * GravityImperial, Pow2(s.hydraulicArea)))

\* the velocityHead of PipeSection.calculateTDH
PipeSectionVelocityHead(s, adjustedFlowRate) ==
    IF s.hasVelocityHead
    THEN Div(Pow2(adjustedFlowRate), Mul(2 * GravityImperial, Pow2(s.hydraulicArea)))
    ELSE 0

\* PipeSection.calculateTDH: <<maxTDH, minTDH>>
PipeSectionTDH(s, flowRate) ==
    LET adjustedFlowRate == Max(flowRate, Epsilon)
        pressureHead == Mul(s.p2 - s.p1, PressureFactorImperial)
        velocityHead == PipeSectionVelocityHead(s, adjustedFlowRate)
        staticHeadMax == s.z2_max - s.z1_min
        staticHeadMin == s.z2_min - s.z1_max
        majorLosses == PipeSectionMajorLosses(s, adjustedFlowRate)
        minorLosses == PipeSectionMinorLosses(s, adjustedFlowRate)
        band(totalLosses) == <<staticHeadMax + totalLosses, staticHeadMin + totalLosses>>
        from(major) ==
            IF major = NaN THEN <<NaN, NaN>>
            ELSE band(major + minorLosses + velocityHead + pressureHead)
    IN  from(majorLosses)

\* PipeSection.execute(): <<maxTDH, minTDH, flowRate>> per generated flow rate
PipeSectionExecute(s) ==
    LET range == PipeSectionFlowRange(s)
        point(tdh, flowRate) == <<tdh[1], tdh[2], flowRate>>
    IN  [i \in 1..20 |-> point(PipeSectionTDH(s, range[i]), range[i])]

(***************************************************************************)
(* ApproximationMethod and SerghidesApproximation (src/unnamed/part_000).  *)
(***************************************************************************)
\* enum ApproximationMethod { SERGHIDE, COLEBROOK }
ApproximationMethod == {"SERGHIDE", "COLEBROOK"}

\* JavaScript values other than plain numbers, as passed between execute methods
EnumValue(m) == [t |-> "enum", v |-> m]
ArrayValue(a) == [t |-> "array", a |-> a]
BooleanValue(b) == [t |-> "boolean", b |-> b]
SerghidesObject == [t |-> "SerghidesApproximation"]
Undefined == [t |-> "undefined"]

\* x is ApproximationMethod.m
IsEnum(x, m) == x.t = "enum" /\ x.v = m

\* 10.2, the metric pressure-head factor
PressureFactorMetric == 10200

\* 9.81, the metric gravitational constant
GravityMetric == 9810

\* calculateTerm(prev) of SerghidesApproximation.calculateFrictionFactor, with
\* the two locals it closes over
SerghidesCalculateTerm(roughnessTerm, reynoldsNum, prev) ==
    LET reynoldsTerm ==
            IF Truthy(prev)
            THEN Div(Mul(2510, prev[1]), reynoldsNum)
            ELSE Div(Num(12), reynoldsNum)
    IN  -2 * Log10(roughnessTerm + reynoldsTerm)

\* the locals <<a, b, c>> of SerghidesApproximation.calculateFrictionFactor
SerghidesTerms(relativeRoughness, reynoldsNum) ==
    LET roughnessTerm == Div(relativeRoughness, 3700)
        withB(a, b) ==
            <<a, b, SerghidesCalculateTerm(roughnessTerm, reynoldsNum, <<b>>)>>
        withA(a) ==
            withB(a, SerghidesCalculateTerm(roughnessTerm, reynoldsNum, <<a>>))
    IN  withA(SerghidesCalculateTerm(roughnessTerm, reynoldsNum, <<>>))

\* the call with Reynolds number 2300 itself taken as laminar
SerghidesFrictionCallInclusive(relativeRoughness, reynoldsNum) ==
    LET turbulent(terms) == [value |-> FrictionFromTerms(terms), terms |-> terms]
    IN  IF reynoldsNum <= Num(LaminarLimit)
        THEN [value |-> Div(Num(64), reynoldsNum), terms |-> <<>>]
        ELSE turbulent(SerghidesTerms(relativeRoughness, reynoldsNum))

\* SerghidesApproximation.calculateFrictionFactor as a call: the value it
\* returns and the terms it has computed by then, none on the laminar return
SerghidesFrictionCall(relativeRoughness, reynoldsNum) ==
    LET turbulent(terms) == [value |-> FrictionFromTerms(terms), terms |-> terms]
    IN  IF reynoldsNum < Num(LaminarLimit)
        THEN [value |-> Div(Num(64), reynoldsNum), terms |-> <<>>]
        ELSE turbulent(SerghidesTerms(relativeRoughness, reynoldsNum))

\* SerghidesApproximation.calculateFrictionFactor
SerghidesFrictionFactor(relativeRoughness, reynoldsNum) ==
    SerghidesFrictionCall(relativeRoughness, reynoldsNum).value

(***************************************************************************)
(* The single-valued PipeSection (src/unnamed/part_001) and Bernoullis     *)
(* (src/models/Bernoullis.ts).  A parameter record holds the constructor's *)
(* twelve arguments under the names of their getters.                      *)
(***************************************************************************)
\* the error the constructor throws for parameters p, NoError if it returns
SingleSectionError(p) ==
    IF p.diameter < 0 THEN "Pipe diameter must be a positive integer"
    ELSE IF p.length <= 0 THEN "Pipe length must be a positive integer"
    ELSE IF p.absoluteRoughness <= 0 THEN "Pipe absoluteRoughness must be a positive integer"
    ELSE IF p.kinematicViscosity <= 0 THEN "Pipe kinematicViscosity must be a positive integer"
    ELSE NoError

\* the object a successful constructor call leaves: its private fields
NewSingleSection(p) == p

\* Bernoullis.calculateReynoldsNumber
BernoullisReynoldsNumber(s, flowRate) ==
    LET velocity == Div(flowRate, Mul(Pi, Pow2(s.diameter)) \div 4)
    IN  Max(Div(Mul(velocity, s.diameter), s.kinematicViscosity), Epsilon)

\* Bernoullis.calculateStaticHead
BernoullisStaticHead(s) == s.finalElevation - s.initialElevation

\* Bernoullis.calculatePressureHead
BernoullisPressureHead(s, isImperial) ==
    LET correctionFactor ==
            IF ~isImperial THEN PressureFactorMetric ELSE PressureFactorImperial
    IN  Mul(s.finalPressure - s.initialPressure, correctionFactor)

\* Bernoullis.calculateVelocityHead
BernoullisVelocityHead(s, isImperial) ==
    LET gravity == IF ~isImperial THEN GravityMetric ELSE GravityImperial
    IN  Div(s.finalVelocity - s.initialVelocity, 2 * gravity)

\* Bernoullis.calculateMajorLosses
BernoullisMajorLosses(s, isImperial, flowRate, relativeRoughness) ==
    LET gravity == IF ~isImperial THEN GravityMetric ELSE GravityImperial
        from(frictionFactor) ==
            IF frictionFactor = NaN THEN NaN
            ELSE Div(Mul(Mul(frictionFactor, Div(s.length, s.diameter)), Pow2(flowRate)),
                     Mul(Mul(2 * gravity, Pi), Pow2(s.diameter)) \div 4)
    IN  from(SerghidesFrictionFactor(relativeRoughness,
                                     BernoullisReynoldsNumber(s, flowRate)))

\* Bernoullis.calculateMinorLosses
BernoullisMinorLosses(s, flowRate, isImperial) ==
    LET gravity == IF isImperial THEN GravityImperial ELSE GravityMetric
        sum == SumSeq(s.kValues)
    IN  Div(Mul(sum, Pow2(flowRate)),
            Mul(Mul(2 * gravity, Pi), Pow2(s.diameter)) \div 4)

\* Bernoullis.calculateTDH
BernoullisTDH(s, isImperial, flowRate, relativeRoughness) ==
    LET from(majorLosses) ==
            IF majorLosses = NaN THEN NaN
            ELSE BernoullisStaticHead(s) + BernoullisPressureHead(s, isImperial)
                   + BernoullisVelocityHead(s, isImperial)
                   + majorLosses
                   + BernoullisMinorLosses(s, flowRate, isImperial)
    IN  from(BernoullisMajorLosses(s, isImperial, flowRate, relativeRoughness))

\* new Bernoullis(method, s).execute(flowRates, isImperial), the arguments being
\* JavaScript values: [err, curve], the curve a sequence of <<tdh, flowRate>>
BernoullisExecute(s, flowRates, isImperial) ==
    IF flowRates.t # "array"
    THEN [err |-> "TypeError: flowRates.map is not a function", curve |-> <<>>]
    ELSE LET imperial == IF isImperial.t = "undefined" THEN TRUE ELSE isImperial.b
             relativeRoughness == Div(s.absoluteRoughness, s.diameter)
         IN  [err |-> NoError,
              curve |-> [i \in 1..Len(flowRates.a) |->
                           <<BernoullisTDH(s, imperial, flowRates.a[i], relativeRoughness),
                             flowRates.a[i]>>]]

\* PipeSection.execute(approximationMethod, isImperial) of the single-valued
\* class, the arguments being JavaScript values; further arguments are dropped
SingleSectionExecute(s, approximationMethod, isImperial) ==
    LET requested ==
            IF approximationMethod.t = "undefined" THEN EnumValue("SERGHIDE")
            ELSE approximationMethod
        method ==
            IF IsEnum(requested, "SERGHIDE") THEN SerghidesObject ELSE Undefined
    IN  IF IsEnum(requested, "COLEBROOK")
        THEN [err |-> "Colebook method not implemented.", curve |-> <<>>]
        ELSE IF method.t = "undefined"
        THEN [err |-> "No approximation method defined.", curve |-> <<>>]
        ELSE BernoullisExecute(s,
                               IF isImperial.t = "undefined" THEN BooleanValue(TRUE)
                               ELSE isImperial,
                               Undefined)

(***************************************************************************)
(* Inputs.                                                                 *)
(***************************************************************************)
\* longest section list the model builds
MaxSections == 2

\* constructor arguments of the banded PipeSection: a turbulent-capable section
BandedBase ==
    [p1 |-> 0, p2 |-> Num(1), v1 |-> 0, v2 |-> 0,
     z1_min |-> 0, z2_min |-> Num(10), z1_max |-> Num(2), z2_max |-> Num(12),
     length |-> Num(100), diameter |-> Num(1), absoluteRoughness |-> 37,
     kinematicViscOfFluid |-> 10, targetFlowRate |-> Num(20),
     appurtenanceKValues |-> <<500>>]

\* a section with another target flow rate, a velocity difference and two K values
BandedOther ==
    [BandedBase EXCEPT !.targetFlowRate = Num(10), !.v2 = Num(1), !.p2 = 0,
                       !.z2_max = Num(15), !.appurtenanceKValues = <<500, 250>>]

\* a smooth pipe (absoluteRoughness = 0) in laminar flow
BandedSmooth ==
    [BandedBase EXCEPT !.absoluteRoughness = 0, !.kinematicViscOfFluid = 100]

\* a final elevation whose maximum lies below its minimum: neither of the two
\* comparisons of the constructor's band check looks at that pair
BandedInverted == [BandedBase EXCEPT !.z2_max = Num(5)]

\* arguments the constructor is offered: the four above and one violation each
BandedParams ==
    {BandedBase, BandedOther, BandedSmooth, BandedInverted,
     [BandedBase EXCEPT !.diameter = 0],
     [BandedBase EXCEPT !.length = 0],
     [BandedBase EXCEPT !.absoluteRoughness = -1],
     [BandedBase EXCEPT !.kinematicViscOfFluid = 0],
     [BandedBase EXCEPT !.appurtenanceKValues = <<>>],
     [BandedBase EXCEPT !.z2_max = -Num(1)],
     [BandedBase EXCEPT !.z2_min = Num(1)]}

\* constructor arguments of the single-valued PipeSection
SingleBase ==
    [initialPressure |-> 0, finalPressure |-> Num(1),
     initialVelocity |-> 0, finalVelocity |-> 0, targetFlowRate |-> Num(20),
     initialElevation |-> 0, finalElevation |-> Num(10),
     length |-> Num(100), diameter |-> Num(1), absoluteRoughness |-> 37,
     kinematicViscosity |-> 10, kValues |-> <<500>>]

SingleOther ==
    [SingleBase EXCEPT !.targetFlowRate = Num(10), !.finalVelocity = Num(1),
                       !.kValues = <<500, 250>>]

SingleParams ==
    {SingleBase, SingleOther,
     [SingleBase EXCEPT !.diameter = 0],
     [SingleBase EXCEPT !.diameter = -Num(1)],
     [SingleBase EXCEPT !.length = 0],
     [SingleBase EXCEPT !.absoluteRoughness = 0],
     [SingleBase EXCEPT !.kinematicViscosity = 0],
     [SingleBase EXCEPT !.kValues = <<>>]}

\* sections and numbers offered to the calculations of one section: flow
\* rates on both sides of Reynolds number 2300 (18.055 gives 2300 itself in
\* BandedBase), and the case roughnessTerm + 12 / Re = 1: relative roughness
\* 3.6815, which is 3.682 at the model's resolution, at Reynolds number 2400;
\* BandedUnitTerm has both at flow rate 18.84
BandedUnitTerm == [BandedBase EXCEPT !.absoluteRoughness = 3682]
BandedSwapped == [BandedOther EXCEPT !.v1 = Num(1), !.v2 = 0]
SingleSwapped == [SingleOther EXCEPT !.initialVelocity = Num(1), !.finalVelocity = 0]
FormulaParams(class) ==
    IF class = "banded"
    THEN {BandedBase, BandedOther, BandedSmooth, BandedUnitTerm, BandedSwapped}
    ELSE {SingleBase, SingleOther, SingleSwapped}
FormulaFlowRates(p) ==
    IF p = BandedUnitTerm THEN {18840}
    ELSE {Num(1), Num(10), 18054, 18055, 18840, Num(20)}
FormulaReynoldsNumbers ==
    {Num(1), Num(100), Num(2299), 2299999, Num(2300), Num(2400), Num(5000)}
FormulaRoughnesses == {37, 370}
FormulaSerghidesArguments ==
    (FormulaRoughnesses \X FormulaReynoldsNumbers) \cup {<<3682, Num(2400)>>}

\* target flow rates offered to Pipeline.execute
TargetFlowRates == {Num(10), Num(20)}

(***************************************************************************)
(* State.  One aggregate object is followed: a System or a Pipeline.       *)
(* Pipeline.ts and System.ts import './PipeSection'; System's calls fit    *)
(* the banded class only, Pipeline is followed with either class behind    *)
(* that import.                                                            *)
(***************************************************************************)
VARIABLES
    aggregate,      \* "System" or "Pipeline": the class of the object
    sectionClass,   \* "banded" or "single": the PipeSection class it builds
    pipeSections,   \* its private pipeSections array
    out,            \* the last call: arguments, exception, return value
    other,          \* the pipeSections array of a second Pipeline object
    shared          \* both objects' pipeSections fields hold the same array

vars == <<aggregate, sectionClass, pipeSections, out, other, shared>>

\* the record of a call, with the fields a call does not use left empty
Call(op) ==
    [op |-> op, err |-> NoError, index |-> 0, params |-> <<>>,
     targetFlowRate |-> 0, method |-> "", isImperial |-> FALSE,
     flowRates |-> <<>>, curve |-> <<>>, curveId |-> 0,
     value |-> 0, terms |-> <<>>]

\* what new PipeSection(...p) throws and builds in the followed build
Params == IF sectionClass = "banded" THEN BandedParams ELSE SingleParams
ConstructorError(p) ==
    IF sectionClass = "banded" THEN PipeSectionError(p) ELSE SingleSectionError(p)
Construct(p) ==
    IF sectionClass = "banded" THEN NewPipeSection(p) ELSE NewSingleSection(p)

\* Array(flowRateCount) allocates the array an evaluation returns: an object
\* other than the array the call before returned, the one result the caller
\* may still hold; identities are 1 and 2, 0 standing for no array
FreshArray == IF out.curveId = 1 THEN 2 ELSE 1

Init ==
    /\ aggregate \in {"System", "Pipeline"}
    /\ sectionClass \in {"banded", "single"}
    /\ aggregate = "System" => sectionClass = "banded"
    /\ pipeSections = <<>>
    /\ out = Call("new")
    /\ other = <<>>
    /\ shared = FALSE

(***************************************************************************)
(* Section management: the same three methods in Pipeline and in System.   *)
(***************************************************************************)
\* Array.prototype.pop() in the place of splice: the last element leaves,
\* whatever the index
SpliceLast(a, index) ==
    [k \in 1..(Len(a) - 1) |-> a[k]]

\* Array.prototype.splice(index, 1) for 0 <= index < length
Splice(a, index) ==
    [k \in 1..(Len(a) - 1) |-> IF k <= index THEN a[k] ELSE a[k + 1]]

\* an array is an object: what a method does to this.pipeSections shows in the
\* second Pipeline when its field holds the same array
Aliased == other' = IF shared THEN pipeSections' ELSE other

\* addPipeSection(pipeSectionParams): the constructor runs before push
AddPipeSection(p) ==
    /\ ConstructorError(p) = NoError => Len(pipeSections) < MaxSections
    /\ out' = [Call("addPipeSection") EXCEPT !.params = p, !.err = ConstructorError(p)]
    /\ pipeSections' =
         IF ConstructorError(p) = NoError
         THEN Append(pipeSections, Construct(p))
         ELSE pipeSections
    /\ Aliased
    /\ UNCHANGED <<aggregate, sectionClass, shared>>

\* removePipeSection whose upper check is index > length: splice(length, 1)
\* then removes nothing and nothing is thrown
RemovePipeSectionOffByOne(index) ==
    /\ IF index < 0 \/ index > Len(pipeSections)
       THEN /\ out' = [Call("removePipeSection") EXCEPT
                         !.index = index, !.err = "Invalid pipe section index."]
            /\ UNCHANGED pipeSections
       ELSE /\ out' = [Call("removePipeSection") EXCEPT !.index = index]
            /\ pipeSections' =
                 IF index = Len(pipeSections) THEN pipeSections
                 ELSE Splice(pipeSections, index)
    /\ Aliased
    /\ UNCHANGED <<aggregate, sectionClass, shared>>

\* removePipeSection(index)
RemovePipeSection(index) ==
    /\ IF index < 0 \/ index >= Len(pipeSections)
       THEN /\ out' = [Call("removePipeSection") EXCEPT
                         !.index = index, !.err = "Invalid pipe section index."]
            /\ UNCHANGED pipeSections
       ELSE /\ out' = [Call("removePipeSection") EXCEPT !.index = index]
            /\ pipeSections' = Splice(pipeSections, index)
    /\ Aliased
    /\ UNCHANGED <<aggregate, sectionClass, shared>>

\* modifyPipeSection that takes the old section out with splice(index, 1)
\* before the constructor runs and puts the new one in afterwards: a throwing
\* constructor leaves the list one section short
ModifyPipeSectionSpliceFirst(index, p) ==
    /\ IF index < 0 \/ index >= Len(pipeSections)
       THEN /\ out' = [Call("modifyPipeSection") EXCEPT
                         !.index = index, !.params = p,
                         !.err = "Invalid pipe section index."]
            /\ UNCHANGED pipeSections
       ELSE /\ out' = [Call("modifyPipeSection") EXCEPT
                         !.index = index, !.params = p, !.err = ConstructorError(p)]
            /\ pipeSections' =
                 IF ConstructorError(p) = NoError
                 THEN [pipeSections EXCEPT ![index + 1] = Construct(p)]
                 ELSE Splice(pipeSections, index)
    /\ Aliased
    /\ UNCHANGED <<aggregate, sectionClass, shared>>

\* modifyPipeSection(index, newParams): the index is checked, then the
\* constructor runs, then the element is assigned
ModifyPipeSection(index, p) ==
    /\ IF index < 0 \/ index >= Len(pipeSections)
       THEN /\ out' = [Call("modifyPipeSection") EXCEPT
                         !.index = index, !.params = p,
                         !.err = "Invalid pipe section index."]
            /\ UNCHANGED pipeSections
       ELSE /\ out' = [Call("modifyPipeSection") EXCEPT
                         !.index = index, !.params = p, !.err = ConstructorError(p)]
            /\ pipeSections' =
                 IF ConstructorError(p) = NoError
                 THEN [pipeSections EXCEPT ![index + 1] = Construct(p)]
                 ELSE pipeSections
    /\ Aliased
    /\ UNCHANGED <<aggregate, sectionClass, shared>>

(***************************************************************************)
(* The calculations of one section, called one at a time: the private      *)
(* methods of the banded PipeSection and of Bernoullis, and                *)
(* SerghidesApproximation.calculateFrictionFactor.                         *)
(***************************************************************************)
\* approximationMethod.calculateFrictionFactor(relativeRoughness, reynoldsNum)
SerghidesCalculateFrictionFactor(relativeRoughness, reynoldsNum) ==
    LET return(call) ==
            [Call("calculateFrictionFactor") EXCEPT
               !.params = <<relativeRoughness, reynoldsNum>>,
               !.value = call.value, !.terms = call.terms]
    IN  /\ sectionClass = "single"
        /\ out' = return(SerghidesFrictionCall(relativeRoughness, reynoldsNum))
        /\ UNCHANGED <<aggregate, sectionClass, pipeSections, other, shared>>

\* calculateFrictionFactor(flowRate) on the banded section built from p
PipeSectionCalculateFrictionFactor(p, flowRate) ==
    LET return(call) ==
            [Call("calculateFrictionFactor") EXCEPT
               !.params = p, !.flowRates = <<flowRate>>,
               !.value = call.value, !.terms = call.terms]
    IN  /\ sectionClass = "banded"
        /\ out' = return(PipeSectionFrictionCall(NewPipeSection(p), flowRate))
        /\ UNCHANGED <<aggregate, sectionClass, pipeSections, other, shared>>

\* calculateMajorLosses on the section built from p
CalculateMajorLosses(p, flowRate, isImperial) ==
    /\ out' = [Call("calculateMajorLosses") EXCEPT
                 !.params = p, !.flowRates = <<flowRate>>,
                 !.isImperial = isImperial /\ sectionClass = "single",
                 !.value =
                    IF sectionClass = "banded"
                    THEN PipeSectionMajorLosses(NewPipeSection(p), flowRate)
                    ELSE BernoullisMajorLosses(NewSingleSection(p), isImperial, flowRate,
                                               Div(p.absoluteRoughness, p.diameter))]
    /\ UNCHANGED <<aggregate, sectionClass, pipeSections, other, shared>>

\* calculateMinorLosses on the section built from p
CalculateMinorLosses(p, flowRate, isImperial) ==
    /\ out' = [Call("calculateMinorLosses") EXCEPT
                 !.params = p, !.flowRates = <<flowRate>>,
                 !.isImperial = isImperial /\ sectionClass = "single",
                 !.value =
                    IF sectionClass = "banded"
                    THEN PipeSectionMinorLosses(NewPipeSection(p), flowRate)
                    ELSE BernoullisMinorLosses(NewSingleSection(p), flowRate, isImperial)]
    /\ UNCHANGED <<aggregate, sectionClass, pipeSections, other, shared>>

\* the velocity head of the section built from p: the local velocityHead of
\* the banded calculateTDH(flowRate), Bernoullis.calculateVelocityHead
CalculateVelocityHead(p, flowRate, isImperial) ==
    /\ out' = [Call("calculateVelocityHead") EXCEPT
                 !.params = p, !.flowRates = <<flowRate>>,
                 !.isImperial = isImperial /\ sectionClass = "single",
                 !.value =
                    IF sectionClass = "banded"
                    THEN PipeSectionVelocityHead(NewPipeSection(p), Max(flowRate, Epsilon))
                    ELSE BernoullisVelocityHead(NewSingleSection(p), isImperial)]
    /\ UNCHANGED <<aggregate, sectionClass, pipeSections, other, shared>>

\* generateFlowRange() on the banded section built from p
GenerateFlowRange(p) ==
    /\ sectionClass = "banded"
    /\ out' = [Call("generateFlowRange") EXCEPT
                 !.params = p, !.flowRates = PipeSectionFlowRange(NewPipeSection(p))]
    /\ UNCHANGED <<aggregate, sectionClass, pipeSections, other, shared>>

(***************************************************************************)
(* A second Pipeline object, src/models/Pipeline.ts line 7: the constructor *)
(* keeps the array it is given, and getPipeSections (line 104) returns the *)
(* array the object keeps.                                                 *)
(***************************************************************************)
\* new Pipeline() if ~fromFirst, new Pipeline(first.getPipeSections()) otherwise
NewPipeline(fromFirst) ==
    /\ aggregate = "Pipeline"
    /\ out' = [Call("new Pipeline") EXCEPT !.index = IF fromFirst THEN 1 ELSE 0]
    /\ other' = IF fromFirst THEN pipeSections ELSE <<>>
    /\ shared' = fromFirst
    /\ UNCHANGED <<aggregate, sectionClass, pipeSections>>

\* addPipeSection(pipeSectionParams) on the second Pipeline
OtherAddPipeSection(p) ==
    /\ ConstructorError(p) = NoError => Len(other) < MaxSections
    /\ out' = [Call("other.addPipeSection") EXCEPT
                 !.params = p, !.err = ConstructorError(p)]
    /\ other' =
         IF ConstructorError(p) = NoError
         THEN Append(other, Construct(p))
         ELSE other
    /\ pipeSections' = IF shared THEN other' ELSE pipeSections
    /\ UNCHANGED <<aggregate, sectionClass, shared>>

(***************************************************************************)
(* The setters of the single-valued PipeSection, called on an element of   *)
(* the array getPipeSections() returns.                                    *)
(***************************************************************************)
\* the fields whose setters are followed: those the constructor looks at and
\* the K values
SetterFields ==
    {"diameter", "length", "absoluteRoughness", "kinematicViscosity", "kValues"}

\* the values offered to the setter of a field: one the invariants forbid and
\* one they allow
SetterValues(field) ==
    IF field = "kValues" THEN {<<>>, <<250>>} ELSE {0, Num(2)}

\* set field(value) { this._field = value; } on getPipeSections()[k - 1]
Set(k, field, value) ==
    /\ sectionClass = "single"
    /\ k \in 1..Len(pipeSections)
    /\ out' = [Call("set") EXCEPT !.index = k - 1, !.params = <<field, value>>]
    /\ pipeSections' = [pipeSections EXCEPT ![k][field] = value]
    /\ Aliased
    /\ UNCHANGED <<aggregate, sectionClass, shared>>

(***************************************************************************)
(* System.calcTDH, src/models/System.ts.                                   *)
(***************************************************************************)
\* the sections the offered parameters can build, and what execute() returns
\* on each: PipeSectionExecute, evaluated once per section
BandedSections ==
    {NewPipeSection(p) : p \in {q \in BandedParams : PipeSectionError(q) = NoError}}
PipeSectionCurves == [s \in BandedSections |-> PipeSectionExecute(s)]

\* the inner loop with cumulativeMaxTDH assigned instead of added to
RECURSIVE SystemSumAtAssigning(_, _, _, _)
SystemSumAtAssigning(sections, i, k, acc) ==
    IF k > Len(sections) THEN acc
    ELSE LET next(row) == <<row[1], acc[2] + row[2], row[3]>>
         IN  SystemSumAtAssigning(sections, i, k + 1,
                                  next(PipeSectionCurves[sections[k]][i]))

\* the inner loop of calcTDH at 1-based sample i over the sections from k on,
\* acc being <<cumulativeMaxTDH, cumulativeMinTDH, flowRate>>
RECURSIVE SystemSumAt(_, _, _, _)
SystemSumAt(sections, i, k, acc) ==
    IF k > Len(sections) THEN acc
    ELSE LET next(row) == <<acc[1] + row[1], acc[2] + row[2], row[3]>>
         IN  SystemSumAt(sections, i, k + 1, next(PipeSectionCurves[sections[k]][i]))

\* the array calcTDH returns for a non-empty section list
SystemCurve(sections) ==
    LET flowRateCount == Len(PipeSectionCurves[sections[1]])
    IN  [i \in 1..flowRateCount |-> SystemSumAt(sections, i, 1, <<0, 0, 0>>)]

\* calcTDH()
CalcTDH ==
    /\ aggregate = "System"
    /\ out' = IF Len(pipeSections) = 0
              THEN [Call("calcTDH") EXCEPT !.err = "No pipe sections exist."]
              ELSE [Call("calcTDH") EXCEPT !.curve = SystemCurve(pipeSections),
                                           !.curveId = FreshArray]
    /\ UNCHANGED <<aggregate, sectionClass, pipeSections, other, shared>>

(***************************************************************************)
(* Pipeline.execute, src/models/Pipeline.ts.                               *)
(***************************************************************************)
\* Pipeline.generateFlowRange(targetFlowRate)
PipelineFlowRange(targetFlowRate) ==
    LET step == targetFlowRate \div 10
    IN  [i \in 1..20 |-> step * (i - 1)]

\* flowRateCount in Pipeline.execute
FlowRateCount == 20

\* pipeSection.execute(flowRates, method, isImperial) as the section's class
\* takes it: [err, curve]
SectionExecute(s, flowRates, method, isImperial) ==
    IF sectionClass = "banded"
    THEN [err |-> NoError, curve |-> PipeSectionCurves[s]]
    ELSE SingleSectionExecute(s, ArrayValue(flowRates), method)

\* the inner loop of execute at 1-based sample i over the calls from k on,
\* acc being <<cumulativeTDH, flowRate>>
RECURSIVE PipelineSumAt(_, _, _, _)
PipelineSumAt(calls, i, k, acc) ==
    IF k > Len(calls) THEN acc
    ELSE LET row == calls[k].curve[i]
         IN  PipelineSumAt(calls, i, k + 1, <<acc[1] + row[1], row[2]>>)

\* the loop of execute over the samples and, inside, over the sections:
\* [err, curve], the first exception a section's execute throws ending it
PipelineCurve(sections, flowRates, method, isImperial) ==
    LET loop(calls) ==
            LET thrown == {k \in 1..Len(calls) : calls[k].err # NoError}
                first == CHOOSE k \in thrown : \A j \in thrown : k <= j
            IN  IF thrown # {}
                THEN [err |-> calls[first].err, curve |-> <<>>]
                ELSE [err |-> NoError,
                      curve |-> [i \in 1..FlowRateCount |->
                                   PipelineSumAt(calls, i, 1, <<0, 0>>)]]
    IN  loop([k \in 1..Len(sections) |->
                SectionExecute(sections[k], flowRates, method, isImperial)])

\* execute with the method resolved before the section list is looked at
ExecuteMethodFirst(targetFlowRate, approximationMethod, isImperial) ==
    LET call == [Call("execute") EXCEPT
                   !.targetFlowRate = targetFlowRate,
                   !.method = approximationMethod, !.isImperial = isImperial]
        flowRates == PipelineFlowRange(targetFlowRate)
        return(loop) == [call EXCEPT !.flowRates = flowRates,
                                     !.err = loop.err, !.curve = loop.curve,
                                     !.curveId = IF loop.err = NoError
                                                 THEN FreshArray ELSE 0]
    IN  /\ aggregate = "Pipeline"
        /\ out' =
             IF approximationMethod = "COLEBROOK"
             THEN [call EXCEPT !.err = "Colebook method not implemented."]
             ELSE IF Len(pipeSections) = 0
             THEN [call EXCEPT !.err = "No pipe sections exist."]
             ELSE return(PipelineCurve(pipeSections, flowRates, SerghidesObject,
                                       BooleanValue(isImperial)))
        /\ UNCHANGED <<aggregate, sectionClass, pipeSections, other, shared>>

\* execute whose COLEBROOK case resolves no method instead of throwing
ExecuteColebrookUnresolved(targetFlowRate, approximationMethod, isImperial) ==
    LET call == [Call("execute") EXCEPT
                   !.targetFlowRate = targetFlowRate,
                   !.method = approximationMethod, !.isImperial = isImperial]
        flowRates == PipelineFlowRange(targetFlowRate)
        return(loop) == [call EXCEPT !.flowRates = flowRates,
                                     !.err = loop.err, !.curve = loop.curve,
                                     !.curveId = IF loop.err = NoError
                                                 THEN FreshArray ELSE 0]
    IN  /\ aggregate = "Pipeline"
        /\ out' =
             IF Len(pipeSections) = 0
             THEN [call EXCEPT !.err = "No pipe sections exist."]
             ELSE IF approximationMethod # "SERGHIDE"
             THEN [call EXCEPT !.err = "No approximation method defined."]
             ELSE return(PipelineCurve(pipeSections, flowRates, SerghidesObject,
                                       BooleanValue(isImperial)))
        /\ UNCHANGED <<aggregate, sectionClass, pipeSections, other, shared>>

\* execute whose loop takes each section off the list with shift()
ExecuteShifting(targetFlowRate, approximationMethod, isImperial) ==
    LET call == [Call("execute") EXCEPT
                   !.targetFlowRate = targetFlowRate,
                   !.method = approximationMethod, !.isImperial = isImperial]
        method == IF approximationMethod = "SERGHIDE" THEN SerghidesObject
                  ELSE Undefined
        flowRates == PipelineFlowRange(targetFlowRate)
        return(loop) == [call EXCEPT !.flowRates = flowRates,
                                     !.err = loop.err, !.curve = loop.curve,
                                     !.curveId = IF loop.err = NoError
                                                 THEN FreshArray ELSE 0]
    IN  /\ aggregate = "Pipeline"
        /\ out' =
             IF Len(pipeSections) = 0
             THEN [call EXCEPT !.err = "No pipe sections exist."]
             ELSE IF approximationMethod = "COLEBROOK"
             THEN [call EXCEPT !.err = "Colebook method not implemented."]
             ELSE IF method.t = "undefined"
             THEN [call EXCEPT !.err = "No approximation method defined."]
             ELSE return(PipelineCurve(pipeSections, flowRates, method,
                                       BooleanValue(isImperial)))
        /\ pipeSections' = IF approximationMethod = "SERGHIDE" THEN <<>>
                           ELSE pipeSections
        /\ Aliased
        /\ UNCHANGED <<aggregate, sectionClass, shared>>

\* execute(targetFlowRate, approximationMethod, isImperial)
Execute(targetFlowRate, approximationMethod, isImperial) ==
    LET call == [Call("execute") EXCEPT
                   !.targetFlowRate = targetFlowRate,
                   !.method = approximationMethod, !.isImperial = isImperial]
        method == IF approximationMethod = "SERGHIDE" THEN SerghidesObject
                  ELSE Undefined
        flowRates == PipelineFlowRange(targetFlowRate)
        return(loop) == [call EXCEPT !.flowRates = flowRates,
                                     !.err = loop.err, !.curve = loop.curve,
                                     !.curveId = IF loop.err = NoError
                                                 THEN FreshArray ELSE 0]
    IN  /\ aggregate = "Pipeline"
        /\ out' =
             IF Len(pipeSections) = 0
             THEN [call EXCEPT !.err = "No pipe sections exist."]
             ELSE IF approximationMethod = "COLEBROOK"
             THEN [call EXCEPT !.err = "Colebook method not implemented."]
             ELSE IF method.t = "undefined"
             THEN [call EXCEPT !.err = "No approximation method defined."]
             ELSE return(PipelineCurve(pipeSections, flowRates, method,
                                       BooleanValue(isImperial)))
        /\ UNCHANGED <<aggregate, sectionClass, pipeSections, other, shared>>

(***************************************************************************)
(* The specification.                                                      *)
(***************************************************************************)
\* indices offered to removePipeSection and modifyPipeSection
Indices == -1..(MaxSections + 1)

Next ==
    \/ \E p \in Params : AddPipeSection(p)
    \/ \E index \in Indices : RemovePipeSection(index)
    \/ \E index \in Indices, p \in Params : ModifyPipeSection(index, p)
    \/ CalcTDH
    \/ \E targetFlowRate \in TargetFlowRates, approximationMethod \in ApproximationMethod,
          isImperial \in BOOLEAN :
         Execute(targetFlowRate, approximationMethod, isImperial)

Spec == Init /\ [][Next]_vars

\* One section's calculations, each applied to drawn arguments.
FormulaNext ==
    \/ \E arguments \in FormulaSerghidesArguments :
         SerghidesCalculateFrictionFactor(arguments[1], arguments[2])
    \/ \E p \in FormulaParams(sectionClass) : \E flowRate \in FormulaFlowRates(p) :
         PipeSectionCalculateFrictionFactor(p, flowRate)
    \/ \E p \in FormulaParams(sectionClass) :
         \E flowRate \in FormulaFlowRates(p), isImperial \in BOOLEAN :
           CalculateMajorLosses(p, flowRate, isImperial)
    \/ \E p \in FormulaParams(sectionClass) :
         \E flowRate \in FormulaFlowRates(p), isImperial \in BOOLEAN :
           CalculateMinorLosses(p, flowRate, isImperial)
    \/ \E p \in FormulaParams(sectionClass) :
         \E flowRate \in FormulaFlowRates(p), isImperial \in BOOLEAN :
           CalculateVelocityHead(p, flowRate, isImperial)
    \/ \E p \in FormulaParams(sectionClass) : GenerateFlowRange(p)

FormulaSpec == Init /\ [][FormulaNext]_vars

\* Two Pipeline objects: the followed one and a second one built beside it.
OwnershipParams == {BandedBase, [BandedBase EXCEPT !.diameter = 0]}

OwnershipInit ==
    /\ aggregate = "Pipeline"
    /\ sectionClass = "banded"
    /\ pipeSections = <<>>
    /\ out = Call("new")
    /\ other = <<>>
    /\ shared = FALSE

OwnershipNext ==
    \/ \E fromFirst \in BOOLEAN : NewPipeline(fromFirst)
    \/ \E p \in OwnershipParams : AddPipeSection(p)
    \/ \E index \in Indices : RemovePipeSection(index)
    \/ \E index \in Indices, p \in OwnershipParams : ModifyPipeSection(index, p)
    \/ \E p \in OwnershipParams : OtherAddPipeSection(p)

OwnershipSpec == OwnershipInit /\ [][OwnershipNext]_vars

\* A single-valued section on its own: a Pipeline holds one section built from
\* arguments that meet the invariants, and its setters are called.
SetterInit ==
    /\ aggregate = "Pipeline"
    /\ sectionClass = "single"
    /\ pipeSections \in {<<NewSingleSection(p)>> : p \in {SingleBase, SingleOther}}
    /\ out = Call("new")
    /\ other = <<>>
    /\ shared = FALSE

SetterNext ==
    \E field \in SetterFields : \E value \in SetterValues(field) : Set(1, field, value)

SetterSpec == SetterInit /\ [][SetterNext]_vars

(***************************************************************************)
(* Properties.  Every call overwrites out, and the evaluations leave       *)
(* pipeSections alone, so a state whose out.op is an evaluation shows the  *)
(* section list that evaluation ran on.                                    *)
(***************************************************************************)
Evaluated == out.op \in {"execute", "calcTDH"}
Returned == Evaluated /\ out.err = NoError

\* C1: evaluating an aggregate whose section list is empty throws 'No pipe
\* sections exist.' and returns no curve, whatever the target flow rate, the
\* approximation method and the unit system, in every reachable state.
C1_EmptyPipelineError ==
    (Evaluated /\ Len(pipeSections) = 0)
        => (out.err = "No pipe sections exist." /\ out.curve = <<>>)

\* an empty Pipeline was asked for the unimplemented method and threw the
\* empty-pipeline error
C1_Witness ==
    /\ out.op = "execute" /\ out.method = "COLEBROOK" /\ pipeSections = <<>>
    /\ out.err = "No pipe sections exist."

\* C2 as stated: execute with COLEBROOK throws 'Colebook method not
\* implemented.' and returns nothing in every pipeline state, zero sections
\* included.
C2_ColebrookAlwaysUnsupported ==
    (out.op = "execute" /\ out.method = "COLEBROOK")
        => (out.err = "Colebook method not implemented." /\ out.curve = <<>>)

\* C2 amended: execute with COLEBROOK never returns a curve; it throws
\* 'Colebook method not implemented.' when the pipeline has at least one
\* section and 'No pipe sections exist.' when it has none.
C2_ColebrookNeverReturns ==
    (out.op = "execute" /\ out.method = "COLEBROOK")
        => /\ out.curve = <<>>
           /\ out.err = IF Len(pipeSections) = 0
                        THEN "No pipe sections exist."
                        ELSE "Colebook method not implemented."

\* a Pipeline with a section threw the unsupported-method error
C2_Witness ==
    /\ out.op = "execute" /\ out.method = "COLEBROOK" /\ Len(pipeSections) > 0
    /\ out.err = "Colebook method not implemented."

\* C3: removePipeSection(index) and modifyPipeSection(index, params) with
\* index < 0 or index >= length throw 'Invalid pipe section index.' and leave
\* the section list as it was.
C3_InvalidIndexRejected ==
    [][(/\ out'.op \in {"removePipeSection", "modifyPipeSection"}
        /\ (out'.index < 0 \/ out'.index >= Len(pipeSections)))
          => (/\ out'.err = "Invalid pipe section index."
              /\ pipeSections' = pipeSections)]_vars

\* removePipeSection(length) on a non-empty list threw
C3_Witness ==
    /\ out.op = "removePipeSection" /\ Len(pipeSections) > 0
    /\ out.index = Len(pipeSections)
    /\ out.err = "Invalid pipe section index."

\* C4 as stated: the flow-rate range execute generates has twenty samples, is
\* strictly increasing and is (targetFlowRate / 20) * (i + 1) for i = 0..19, so
\* that its last sample is targetFlowRate.
C4_CanonicalFlowRange ==
    (out.op = "execute" /\ Len(out.flowRates) > 0)
        => /\ Len(out.flowRates) = 20
           /\ \A i \in 1..19 : out.flowRates[i] < out.flowRates[i + 1]
           /\ \A i \in 0..19 : 20 * out.flowRates[i + 1] = out.targetFlowRate * (i + 1)
           /\ out.flowRates[20] = out.targetFlowRate

\* the flow-rate component of tuple i of a returned curve
FlowRateOf(row) == IF aggregate = "System" THEN row[3] ELSE row[2]

\* the flow-rate range an evaluation generated first: execute's flowRates,
\* calcTDH's pipeSections[0].execute()
GeneratedRange ==
    IF aggregate = "System"
    THEN [i \in 1..20 |-> PipeSectionFlowRange(pipeSections[1])[i]]
    ELSE out.flowRates

\* C5 as stated: a returned curve has the length of the generated flow-rate
\* range, twenty, and the flow-rate component of tuple i is the i-th generated
\* flow rate.
C5_CurveAlignedWithFlowRange ==
    Returned
        => /\ Len(out.curve) = 20
           /\ \A i \in 1..20 : FlowRateOf(out.curve[i]) = GeneratedRange[i]

\* the sum f[1] + ... + f[n]
RECURSIVE Total(_, _)
Total(f, n) == IF n = 0 THEN 0 ELSE f[n] + Total(f, n - 1)

\* the tuple section k hands to the evaluation at sample i
SectionRow(k, i) ==
    SectionExecute(pipeSections[k], out.flowRates, SerghidesObject,
                   BooleanValue(out.isImperial)).curve[i]

Reorderings ==
    {[k \in 1..Len(pipeSections) |-> pipeSections[f[k]]] :
        f \in Permutations(1..Len(pipeSections))}

\* the curve the evaluation of out returns on the section list sections
CurveOn(sections) ==
    IF aggregate = "System" THEN SystemCurve(sections)
    ELSE PipelineCurve(sections, out.flowRates, SerghidesObject,
                       BooleanValue(out.isImperial)).curve

\* C7 as stated: the same sections in any other insertion order give the
\* same curve, tuple by tuple, heads and flow rate alike.
C7_OrderIndependent ==
    Returned
        => \A sections \in Reorderings :
             \A i \in 1..20 : CurveOn(sections)[i] = out.curve[i]

\* C8 as stated: at every sample i every section is evaluated at the same flow
\* rate, the one of the range generated from the pipeline-level target flow
\* rate (execute's flowRates), whatever the sections' own targetFlowRate.
C8_SharedFlowRates ==
    Returned
        => \A i \in 1..20 : \A k \in 1..Len(pipeSections) :
             /\ PipeSectionCurves[pipeSections[k]][i][3]
                  = PipeSectionCurves[pipeSections[1]][i][3]
             /\ aggregate = "Pipeline"
                  => PipeSectionCurves[pipeSections[k]][i][3] = out.flowRates[i]

\* the banded constructor's documented conditions
BandedViolation(p) ==
    \/ p.diameter <= 0
    \/ p.length <= 0
    \/ p.absoluteRoughness < 0
    \/ p.kinematicViscOfFluid <= 0
    \/ p.appurtenanceKValues = <<>>
    \/ p.z2_max < p.z1_min
    \/ p.z2_min < p.z1_max

\* a call that ran the constructor on out.params
Constructed ==
    \/ out.op = "addPipeSection"
    \/ out.op = "modifyPipeSection" /\ out.err # "Invalid pipe section index."

\* C9: the banded constructor throws exactly when diameter <= 0, length <= 0,
\* absoluteRoughness < 0, kinematicViscosity <= 0, the K values are empty or
\* the elevation band crosses; absoluteRoughness = 0 is accepted.
C9_BandedValidation ==
    (sectionClass = "banded" /\ Constructed)
        => /\ out.err # NoError <=> BandedViolation(out.params)
           /\ (out.err = NoError /\ out.op = "addPipeSection")
                => pipeSections[Len(pipeSections)] = NewPipeSection(out.params)

\* a crossing band (z2_min < z1_max) was rejected and rough-free pipe accepted
\* earlier: the list holds a section with absoluteRoughness = 0
C9_Witness ==
    /\ sectionClass = "banded" /\ out.op = "addPipeSection"
    /\ out.params.z2_min < out.params.z1_max
    /\ out.err = "Elevation ranges are invalid."
    /\ \E k \in 1..Len(pipeSections) : pipeSections[k].absoluteRoughness = 0

\* C10 as stated: the single-valued constructor throws for diameter = 0, for
\* length = 0 and for empty K values, so no such section exists.
C10_SingleValidation ==
    /\ (sectionClass = "single" /\ Constructed
          /\ (\/ out.params.diameter = 0
              \/ out.params.length = 0
              \/ out.params.kValues = <<>>))
         => out.err # NoError
    /\ sectionClass = "single"
         => \A k \in 1..Len(pipeSections) :
              /\ pipeSections[k].diameter # 0
              /\ pipeSections[k].length # 0
              /\ pipeSections[k].kValues # <<>>

\* the invariants of a single-valued section
SingleInvariants(s) ==
    /\ s.diameter > 0
    /\ s.length > 0
    /\ s.kinematicViscosity > 0
    /\ s.absoluteRoughness >= 0
    /\ s.kValues # <<>>

\* C11 as stated, under SetterSpec: after any sequence of setter calls on a
\* section built from arguments that meet them, the invariants still hold, a
\* setter call with a violating value having been rejected.
C11_SettersRevalidate ==
    /\ \A k \in 1..Len(pipeSections) : SingleInvariants(pipeSections[k])
    /\ (out.op = "set" /\ out.err = NoError)
         => SingleInvariants([SingleBase EXCEPT ![out.params[1]] = out.params[2]])

\* C12 as stated, under OwnershipSpec: a call on one Pipeline never changes the
\* section list seen through the other Pipeline.
C12_ExclusiveOwnership ==
    [][/\ out'.op \in {"addPipeSection", "removePipeSection", "modifyPipeSection"}
            => other' = other
       /\ out'.op = "other.addPipeSection" => pipeSections' = pipeSections]_vars

FrictionReynolds ==
    IF sectionClass = "banded"
    THEN PipeSectionReynoldsNumber(NewPipeSection(out.params), out.flowRates[1])
    ELSE out.params[2]
FrictionRoughnessTerm ==
    IF sectionClass = "banded"
    THEN Div(NewPipeSection(out.params).relativeRoughness, 3700)
    ELSE Div(out.params[1], 3700)

\* C14, under FormulaSpec: with 0 < Re < 2300 calculateFrictionFactor returns
\* 64 / Re and has computed no Serghide term; with Re >= 2300, 2300 itself
\* included, it returns the value of the Serghide expression over its three
\* terms.  Both classes.
C14_LaminarBelow2300 ==
    out.op = "calculateFrictionFactor" =>
        /\ FrictionReynolds > 0
        /\ FrictionReynolds < Num(2300)
             => out.value = Div(Num(64), FrictionReynolds) /\ out.terms = <<>>
        /\ FrictionReynolds >= Num(2300)
             => Len(out.terms) = 3 /\ out.value = FrictionFromTerms(out.terms)

\* SerghidesApproximation was called with Re = 2299.999 and returned 64 / Re
C14_Witness ==
    /\ out.op = "calculateFrictionFactor" /\ sectionClass = "single"
    /\ out.params[2] = 2299999
    /\ out.value = 27

\* C20 as stated, under FormulaSpec: in the turbulent branch A comes from
\* 12 / Re, B from 2.51 * A / Re and C from 2.51 * B / Re, whatever A and B
\* are, 0 included.
C20_TermsUsePrevious ==
    (out.op = "calculateFrictionFactor" /\ Len(out.terms) = 3) =>
        LET fromPrevious(prev) ==
                -2 * Log10(FrictionRoughnessTerm
                             + (IF sectionClass = "banded"
                                THEN Mul(Div(2510, FrictionReynolds), prev)
                                ELSE Div(Mul(2510, prev), FrictionReynolds)))
        IN  /\ out.terms[1] =
                  -2 * Log10(FrictionRoughnessTerm + Div(Num(12), FrictionReynolds))
            /\ out.terms[2] = fromPrevious(out.terms[1])
            /\ out.terms[3] = fromPrevious(out.terms[2])

\* the section, the flow rate and the constants of the calculation in out
CalculationFlowRate == out.flowRates[1]
CalculationArea == Mul(Pi, Pow2(out.params.diameter)) \div 4
CalculationGravity ==
    IF sectionClass = "banded" \/ out.isImperial THEN GravityImperial ELSE GravityMetric
CalculationFrictionFactor ==
    IF sectionClass = "banded"
    THEN PipeSectionFrictionFactor(NewPipeSection(out.params), CalculationFlowRate)
    ELSE SerghidesFrictionFactor(
             Div(out.params.absoluteRoughness, out.params.diameter),
             BernoullisReynoldsNumber(NewSingleSection(out.params), CalculationFlowRate))
CalculationKSum ==
    IF sectionClass = "banded" THEN SumSeq(out.params.appurtenanceKValues)
    ELSE SumSeq(out.params.kValues)

\* C15 as stated, under FormulaSpec: the major loss is
\* f * (length / diameter) * Q^2 / (2 * g * A^2) and the minor loss is
\* (sum of K) * Q^2 / (2 * g * A^2), A being pi * diameter^2 / 4, in the banded
\* PipeSection and in Bernoullis.
C15_LossesOverAreaSquared ==
    /\ (out.op = "calculateMajorLosses" /\ CalculationFrictionFactor # NaN)
         => out.value =
              Div(Mul(Mul(CalculationFrictionFactor,
                          Div(out.params.length, out.params.diameter)),
                      Pow2(CalculationFlowRate)),
                  Mul(2 * CalculationGravity, Pow2(CalculationArea)))
    /\ out.op = "calculateMinorLosses"
         => out.value =
              Div(Mul(CalculationKSum, Pow2(CalculationFlowRate)),
                  Mul(2 * CalculationGravity, Pow2(CalculationArea)))

\* the velocities of the section in out
CalculationV1 ==
    IF sectionClass = "banded" THEN out.params.v1 ELSE out.params.initialVelocity
CalculationV2 ==
    IF sectionClass = "banded" THEN out.params.v2 ELSE out.params.finalVelocity

\* C16 as stated, under FormulaSpec: the velocity head is 0 for equal
\* velocities and (V2^2 - V1^2) / (2 * g * A^2) otherwise.
C16_VelocityHeadFromVelocities ==
    out.op = "calculateVelocityHead" =>
        out.value =
            IF CalculationV1 = CalculationV2 THEN 0
            ELSE Div(Pow2(CalculationV2) - Pow2(CalculationV1),
                     Mul(2 * CalculationGravity, Pow2(CalculationArea)))

\* C19 as stated, under FormulaSpec: generateFlowRange returns 20 equally
\* spaced flow rates whose median is targetFlowRate, which then lies between
\* the tenth and the eleventh of them.
C19_TargetIsMedian ==
    out.op = "generateFlowRange" =>
        /\ Len(out.flowRates) = 20
        /\ \A i \in 1..19 :
             out.flowRates[i + 1] - out.flowRates[i] = out.flowRates[2] - out.flowRates[1]
        /\ out.flowRates[10] <= out.params.targetFlowRate
        /\ out.params.targetFlowRate <= out.flowRates[11]

C18_NoMethodErrorUnreachable ==
    (/\ out.op = "execute" /\ out.method = "SERGHIDE" /\ Len(pipeSections) > 0
     /\ sectionClass = "single" =>
          \A k \in 1..Len(pipeSections) : SingleInvariants(pipeSections[k])) =>
        /\ out.err # "No approximation method defined."
        /\ out.err = NoError
        /\ Len(out.curve) = FlowRateCount

\* C21, under Spec with the banded PipeSection: addPipeSection(params) and
\* modifyPipeSection(i, params) with a valid i whose params fail the
\* constructor's validation throw the constructor's error and leave the
\* section list as it was, and after every call each stored section meets the
\* constructor's conditions.
C21_RejectedParamsLeaveList ==
    [][sectionClass = "banded" =>
         /\ (/\ out'.op \in {"addPipeSection", "modifyPipeSection"}
             /\ out'.err # "Invalid pipe section index."
             /\ BandedViolation(out'.params))
              => /\ out'.err # NoError
                 /\ out'.err = PipeSectionError(out'.params)
                 /\ pipeSections' = pipeSections
         /\ \A k \in 1..Len(pipeSections') : ~BandedViolation(pipeSections'[k])
      ]_vars

\* a System holding sections has rejected a replacement with a crossing band
C21_Witness ==
    /\ aggregate = "System"
    /\ out.op = "modifyPipeSection"
    /\ out.err = "Elevation ranges are invalid."
    /\ Len(pipeSections) = MaxSections
    /\ \A k \in 1..Len(pipeSections) : ~BandedViolation(pipeSections[k])

\* C22 as stated, under Spec with the banded PipeSection: on every stored
\* section, each tuple execute() returns has maxTDH >= minTDH, the two
\* differing by (z2_max - z1_min) - (z2_min - z1_max), and each tuple of the
\* curve calcTDH returns has maxTDH >= minTDH.
C22_MaxAtLeastMin ==
    sectionClass = "banded" =>
        /\ \A k \in 1..Len(pipeSections) : \A i \in 1..20 :
             /\ PipeSectionCurves[pipeSections[k]][i][1]
                  >= PipeSectionCurves[pipeSections[k]][i][2]
             /\ PipeSectionCurves[pipeSections[k]][i][1]
                  - PipeSectionCurves[pipeSections[k]][i][2]
                  = (pipeSections[k].z2_max - pipeSections[k].z1_min)
                    - (pipeSections[k].z2_min - pipeSections[k].z1_max)
        /\ (out.op = "calcTDH" /\ out.err = NoError) =>
             \A i \in 1..Len(out.curve) : out.curve[i][1] >= out.curve[i][2]

====
